---------------------------- MODULE Spec2Model ----------------------------
(***************************************************************************)
(* Business Finance web app (src/app.js): the record store (state.clients, *)
(* state.vendors, state.ledger), the accounting calculations (totals,      *)
(* calcReceivables, calcPayables, calcPartyBalance, balanceSheet,          *)
(* cashFlow), the party and ledger-entry handlers, and load / import /     *)
(* export / reset.                                                         *)
(*                                                                         *)
(* Numbers.  Every amount of the program is a JavaScript Number: an        *)
(* IEEE-754 binary float whose + and - round the exact result to the       *)
(* nearest representable value, ties to even.  The model keeps that rule   *)
(* and scales the significand from 53 bits to Precision bits: a model      *)
(* number is an integer count of the smallest unit, and it is              *)
(* representable when it is m * 2^e with m < 2^Precision.                  *)
(*                                                                         *)
(* Records.  A party is modelled by id, name and openingBalance; a ledger   *)
(* entry by id, type, partyType, partyId, category, amount, paid.  The     *)
(* other free-text fields (phone, address, notes, date, ref, desc, method) *)
(* are read by no calculation and by no handler's condition.               *)
(*                                                                         *)
(* Text.  The value of a text input is the sequence of its characters, so  *)
(* that trim() is the function it is.                                      *)
(***************************************************************************)
EXTENDS Integers, Sequences, FiniteSets, TLC

\* ------------------------------------------------------------------ bounds
\* uid() is called at most MaxIds times in a run (parties plus ledger entries).
MaxIds == 3
\* Width of the significand of a model number, in bits (53 in the program).
Precision == 2

\* The numerals typed into the Amount, Paid Now and Opening Balance inputs,
\* besides the 0 they are preset to; the Opening Balance can also be left empty.
AmountInputs == {3}
PaidInputs == {2}
OpeningInputs == {2}
\* The numerals typed by a user who also enters negative amounts.
SignedInputs == {-3}
\* What is typed into the Name input of the party form.
NameInputs == {<<"A">>}
\* The same with blanks: "A", " " and " A ".
PaddedNameInputs == {<<"A">>, <<" ">>, <<" ", "A", " ">>}
\* What is typed into the Company Name and Currency inputs of the Settings page.
CompanyNameInputs == {<< >>, <<"A", " ">>}
CurrencyInputs == {<<"P", "K", "R">>}
\* What is typed into the New Password input, and into the login form.
PasswordInputs == {"abc", "abcd", "12345"}
LoginNames == {"admin", "manager"}
LoginPasswords == {"admin123", "manager123"} \cup PasswordInputs
\* The pages the hash names.
Paths == {"data", "settings"}
\* The options of the category <select> the model chooses among.
CategoryInputs == {"Sales", "COGS", "Asset", "Office", "Receipt", "Payment"}

\* ------------------------------------------------------------- JS values
\* A JavaScript value where the program expects a number.
Num(n) == [k |-> "number", n |-> n]
\* NaN: what Number() makes of text that is no numeral.
NaNValue == [k |-> "nan", n |-> 0]
\* The value of an <input type=number>: a numeral, or "" when it is cleared.
Numeral(n) == [k |-> "numeral", n |-> n]
EmptyString == [k |-> "empty", n |-> 0]
\* A JSON string that is no numeral ("abc"), and JSON null.
TextValue == [k |-> "text", n |-> 0]
NullValue == [k |-> "null", n |-> 0]

\* Number(v), line 19.
ToNumber(v) ==
  CASE v.k = "number" -> v
    [] v.k = "numeral" -> Num(v.n)
    [] v.k = "empty" -> Num(0)
    [] v.k = "null" -> Num(0)
    [] OTHER -> NaNValue

\* safeNum, lines 18-21: the number, or 0 when Number(v) is not finite.
safeNum(v) ==
  LET n == ToNumber(v) IN IF n.k = "number" THEN n.n ELSE 0

\* ----------------------------------------------------------------- text
\* String.prototype.trim: the text without its leading and trailing white space.
WhiteSpace == {" "}

RECURSIVE trimStart(_)
trimStart(text) ==
  IF text # << >> /\ Head(text) \in WhiteSpace THEN trimStart(Tail(text)) ELSE text

RECURSIVE trimEnd(_)
trimEnd(text) ==
  IF text # << >> /\ text[Len(text)] \in WhiteSpace
  THEN trimEnd(SubSeq(text, 1, Len(text) - 1)) ELSE text

trim(text) == trimEnd(trimStart(text))

\* --------------------------------------------------------- float arithmetic
Abs(x) == IF x < 0 THEN -x ELSE x

RECURSIVE Pow2(_)
Pow2(e) == IF e = 0 THEN 1 ELSE 2 * Pow2(e - 1)

\* The spacing of the representable numbers around magnitude a.
RECURSIVE Ulp(_, _)
Ulp(a, s) == IF a < Pow2(Precision) * s THEN s ELSE Ulp(a, 2 * s)

\* Round to nearest, ties to even.
RoundNearestEven(x) ==
  LET a == Abs(x)
      s == Ulp(a, 1)
      q == a \div s
      r == a % s
      up == (2 * r > s) \/ (2 * r = s /\ q % 2 = 1)
      m == IF up THEN q + 1 ELSE q
  IN  IF x < 0 THEN -(m * s) ELSE m * s

\* a + b and a - b on Numbers.
JsAdd(a, b) == RoundNearestEven(a + b)
JsSub(a, b) == RoundNearestEven(a - b)


\* ------------------------------------------------------------------ state
\* state: the in-memory snapshot (line 84).  state.keys holds the top-level
\*        keys the object has: an object parsed from a file may lack some.
\* storage: the text under STORAGE_KEY in localStorage.
\* download: the text of the last file written by exportData.
\* nextId: how many ids uid() has handed out so far, plus one.
\* pc: the step of the export / import round trip.
\* session: the logged-in user {username, role} (line 85), NoSession when null;
\*          saveSession / clearSession keep sessionStorage equal to it.
\* loginOpen: whether loginDialog is open (showModal, close).
\* view: what route() rendered last: the page, and on the Settings page the
\*       options of the #setUser select.  The model tells the Settings page
\*       ("settings") from the pages of the records ("data"); "none" is the
\*       document before anything is rendered.
VARIABLES state, storage, download, nextId, pc, session, loginOpen, view

vars == <<state, storage, download, nextId, pc, session, loginOpen, view>>

AllKeys == {"company", "users", "clients", "vendors", "ledger"}

\* partyId of an entry with no party (null), and an empty hidden id field ("").
NoId == 0

\* The texts "My Business" and "PKR", lines 40-41 and 983-984.
MyBusiness == <<"M", "y", " ", "B", "u", "s", "i", "n", "e", "s", "s">>
PKR == <<"P", "K", "R">>

\* defaultState, lines 38-55.
defaultState ==
  [ keys |-> AllKeys,
    company |-> [name |-> MyBusiness, currency |-> PKR, fiscalYearStartMonth |-> 7],
    users |-> << [username |-> "admin", password |-> "admin123", role |-> "admin"],
                 [username |-> "manager", password |-> "manager123", role |-> "manager"] >>,
    clients |-> << >>,
    vendors |-> << >>,
    ledger |-> << >> ]

\* -------------------------------------------------------------- session
NoSession == [username |-> "", role |-> "none"]

\* The users the Change Passwords select offers, line 994.
allowedUsers(st, sess) ==
  IF sess.role = "admin" THEN st.users
  ELSE SelectSeq(st.users, LAMBDA u : sess # NoSession /\ u.username = sess.username)

\* What a render function puts into the document; renderSettings fills the
\* #setUser select with the usernames of allowedUsers (line 995).
rendered(path, st, sess) ==
  [ page |-> path,
    userSel |-> IF path = "settings"
                THEN [i \in 1..Len(allowedUsers(st, sess)) |-> allowedUsers(st, sess)[i].username]
                ELSE << >> ]

NothingRendered == [page |-> "none", userSel |-> << >>]

\* A route() that renders without asking ensureLogin.
routeWithoutLogin(sess, st, path) ==
  /\ loginOpen' = loginOpen
  /\ view' = rendered(path, st, sess)

\* route(), lines 1050-1073, with ensureLogin, lines 93-101: without a session
\* the login dialog is shown and nothing is rendered.
route(sess, st, path) ==
  /\ loginOpen' = (sess = NoSession \/ loginOpen)
  /\ view' = IF sess = NoSession THEN view ELSE rendered(path, st, sess)

\* The handlers of a rendered page run when no modal dialog covers the page.
onPage(page) == ~loginOpen /\ view.page = page

\* ------------------------------------------------------- sequence helpers
\* Array.prototype.find / findIndex: the first index whose element has this id, or 0.
RECURSIVE findIndexFrom(_, _, _)
findIndexFrom(list, id, i) ==
  IF i > Len(list) THEN 0
  ELSE IF list[i].id = id THEN i
  ELSE findIndexFrom(list, id, i + 1)

findIndex(list, id) == findIndexFrom(list, id, 1)

\* A splice that removes the first element whatever idx is.
spliceFirst(list, idx) == [i \in 1..(Len(list) - 1) |-> list[i + 1]]

\* list.splice(idx, 1)
splice(list, idx) == [i \in 1..(Len(list) - 1) |-> IF i < idx THEN list[i] ELSE list[i + 1]]

\* reduce((a, x) => a + x, acc) over numbers already passed through safeNum.
RECURSIVE reduceAdd(_, _)
reduceAdd(acc, xs) ==
  IF xs = << >> THEN acc ELSE reduceAdd(JsAdd(acc, Head(xs)), Tail(xs))

amountsOf(rows) == [i \in 1..Len(rows) |-> safeNum(rows[i].amount)]
paidOf(rows) == [i \in 1..Len(rows) |-> safeNum(rows[i].paid)]
ofType(ledger, type) == SelectSeq(ledger, LAMBDA t : t.type = type)

\* --------------------------------------------------------- calculations
\* The list a partyType names, line 168.
partyList(st, partyType) == IF partyType = "client" THEN st.clients ELSE st.vendors
partyKey(partyType) == IF partyType = "client" THEN "clients" ELSE "vendors"

\* openingBalance, lines 166-171 (0 for a party that is not in its list).
openingBalance(st, partyType, partyId) ==
  IF partyType = "null" \/ partyId = NoId THEN 0
  ELSE LET list == partyList(st, partyType)
           i == findIndex(list, partyId)
       IN  IF i = 0 THEN 0 ELSE safeNum(list[i].openingBalance)

\* sumPaid that skips the entries with no party.
sumPaidWithParty(st, type) ==
  reduceAdd(0, paidOf(SelectSeq(ofType(st.ledger, type), LAMBDA t : t.partyId # NoId)))

\* sumPaid, lines 191-195.
sumPaid(st, type) == reduceAdd(0, paidOf(ofType(st.ledger, type)))

\* The loop of totals, lines 176-182: one accumulator per type.
sumAmount(st, type) == reduceAdd(0, amountsOf(ofType(st.ledger, type)))

\* purchasesByCategory that compares the category without regard to case.
purchasesByCategoryAnyCase(st, cat) ==
  reduceAdd(0, amountsOf(SelectSeq(st.ledger,
                 LAMBDA t : t.type = "purchase" /\ t.category \in {cat, "cogs"})))

\* purchasesByCategory, lines 197-201.
purchasesByCategory(st, cat) ==
  reduceAdd(0, amountsOf(SelectSeq(st.ledger,
                 LAMBDA t : t.type = "purchase" /\ t.category = cat)))

\* Map.set: a Map keeps its keys in insertion order.
mapSet(m, id, v) ==
  LET i == findIndex(m, id)
  IN  IF i = 0 THEN Append(m, [id |-> id, val |-> v]) ELSE [m EXCEPT ![i].val = v]

\* Map.get(id) ?? 0
mapGet(m, id) == LET i == findIndex(m, id) IN IF i = 0 THEN 0 ELSE m[i].val

\* The first loop of calcReceivables / calcPayables (lines 206, 221).
RECURSIVE seedMap(_, _)
seedMap(m, list) ==
  IF list = << >> THEN m
  ELSE seedMap(mapSet(m, Head(list).id, safeNum(Head(list).openingBalance)), Tail(list))

\* The second loop (lines 207-212, 222-227): every entry of the partyType with a
\* partyId is added under its partyId, whether or not a party has that id.
RECURSIVE scanLedger(_, _, _, _, _)
scanLedger(m, ledger, partyType, accrual, settlement) ==
  IF ledger = << >> THEN m
  ELSE LET t == Head(ledger)
           cur == mapGet(m, t.partyId)
           m1 == IF t.type = accrual
                 THEN mapSet(m, t.partyId,
                             JsSub(JsAdd(cur, safeNum(t.amount)), safeNum(t.paid)))
                 ELSE m
           cur1 == mapGet(m1, t.partyId)
           m2 == IF t.type = settlement
                 THEN mapSet(m1, t.partyId, JsSub(cur1, safeNum(t.amount)))
                 ELSE m1
       IN  IF t.partyType # partyType \/ t.partyId = NoId
           THEN scanLedger(m, Tail(ledger), partyType, accrual, settlement)
           ELSE scanLedger(m2, Tail(ledger), partyType, accrual, settlement)

mapTotal(m) == reduceAdd(0, [i \in 1..Len(m) |-> m[i].val])

\* calcReceivables without its first loop: the opening balances are left out.
calcReceivablesNoOpening(st) ==
  mapTotal(scanLedger(<< >>, st.ledger, "client", "sale", "cash_in"))

\* calcReceivables, lines 203-216.
calcReceivables(st) ==
  mapTotal(scanLedger(seedMap(<< >>, st.clients), st.ledger, "client", "sale", "cash_in"))

\* calcPayables, lines 218-231.
calcPayables(st) ==
  mapTotal(scanLedger(seedMap(<< >>, st.vendors), st.ledger, "vendor", "purchase", "cash_out"))

\* The loop with "bal += safeNum(t.amount)": the paid part is not taken off.
RECURSIVE balanceLoopIgnoresPaid(_, _, _, _)
balanceLoopIgnoresPaid(bal, ledger, partyType, id) ==
  IF ledger = << >> THEN bal
  ELSE LET t == Head(ledger)
           accrual == IF partyType = "client" THEN "sale" ELSE "purchase"
           settlement == IF partyType = "client" THEN "cash_in" ELSE "cash_out"
           b1 == IF t.type = accrual THEN JsAdd(bal, safeNum(t.amount)) ELSE bal
           b2 == IF t.type = settlement THEN JsSub(b1, safeNum(t.amount)) ELSE b1
       IN  IF t.partyType # partyType \/ t.partyId # id
           THEN balanceLoopIgnoresPaid(bal, Tail(ledger), partyType, id)
           ELSE balanceLoopIgnoresPaid(b2, Tail(ledger), partyType, id)

\* The loop of calcPartyBalance, lines 438-447.
RECURSIVE balanceLoop(_, _, _, _)
balanceLoop(bal, ledger, partyType, id) ==
  IF ledger = << >> THEN bal
  ELSE LET t == Head(ledger)
           accrual == IF partyType = "client" THEN "sale" ELSE "purchase"
           settlement == IF partyType = "client" THEN "cash_in" ELSE "cash_out"
           b1 == IF t.type = accrual
                 THEN JsAdd(bal, JsSub(safeNum(t.amount), safeNum(t.paid)))
                 ELSE bal
           b2 == IF t.type = settlement THEN JsSub(b1, safeNum(t.amount)) ELSE b1
       IN  IF t.partyType # partyType \/ t.partyId # id
           THEN balanceLoop(bal, Tail(ledger), partyType, id)
           ELSE balanceLoop(b2, Tail(ledger), partyType, id)

\* calcPartyBalance, lines 435-449.
calcPartyBalance(st, kind, id) ==
  LET partyType == IF kind = "client" THEN "client" ELSE "vendor"
  IN  balanceLoop(openingBalance(st, partyType, id), st.ledger, partyType, id)

\* Whether a calculation ends in a TypeError: "for (const c of state.clients)" and
\* list.find throw when the list is undefined.
totalsThrows(st) == "clients" \notin st.keys \/ "vendors" \notin st.keys
calcPartyBalanceThrows(st, kind, id) == id # NoId /\ partyKey(kind) \notin st.keys

\* const cash = ..., line 183.
cash(st) ==
  JsSub(JsAdd(sumPaid(st, "sale"), sumAmount(st, "cash_in")),
        JsAdd(JsAdd(sumPaid(st, "purchase"), sumAmount(st, "expense")),
              sumAmount(st, "cash_out")))

\* totals, lines 173-189.
totals(st) ==
  LET sales == sumAmount(st, "sale")
      purchases == sumAmount(st, "purchase")
      expenses == sumAmount(st, "expense")
      cashIn == sumAmount(st, "cash_in")
      cashOut == sumAmount(st, "cash_out")
      cogs == purchasesByCategory(st, "COGS")
  IN  [ sales |-> sales, purchases |-> purchases, cogs |-> cogs, expenses |-> expenses,
        cashIn |-> cashIn, cashOut |-> cashOut, cash |-> cash(st),
        receivable |-> calcReceivables(st), payable |-> calcPayables(st),
        profit |-> JsSub(JsSub(sales, cogs), expenses) ]

\* balanceSheet whose equity adds the liabilities.
balanceSheetAddsLiabilities(st) ==
  LET t == totals(st)
      assets == << [name |-> "Cash", value |-> t.cash],
                   [name |-> "Accounts Receivable (Clients)", value |-> t.receivable] >>
      liabilities == << [name |-> "Accounts Payable (Vendors)", value |-> t.payable] >>
      totalAssets == reduceAdd(0, [i \in 1..Len(assets) |-> assets[i].value])
      totalLiab == reduceAdd(0, [i \in 1..Len(liabilities) |-> liabilities[i].value])
  IN  [ assets |-> assets, liabilities |-> liabilities,
        equity |-> JsAdd(totalAssets, totalLiab),
        totalAssets |-> totalAssets, totalLiab |-> totalLiab ]

\* balanceSheet, lines 233-248.
balanceSheet(st) ==
  LET t == totals(st)
      assets == << [name |-> "Cash", value |-> t.cash],
                   [name |-> "Accounts Receivable (Clients)", value |-> t.receivable] >>
      liabilities == << [name |-> "Accounts Payable (Vendors)", value |-> t.payable] >>
      totalAssets == reduceAdd(0, [i \in 1..Len(assets) |-> assets[i].value])
      totalLiab == reduceAdd(0, [i \in 1..Len(liabilities) |-> liabilities[i].value])
  IN  [ assets |-> assets, liabilities |-> liabilities,
        equity |-> JsSub(totalAssets, totalLiab),
        totalAssets |-> totalAssets, totalLiab |-> totalLiab ]

\* cashFlow, lines 250-257.
cashFlow(st) ==
  LET cashFromSales == JsAdd(sumPaid(st, "sale"), sumAmount(st, "cash_in"))
      cashToSuppliers == JsAdd(sumPaid(st, "purchase"), sumAmount(st, "cash_out"))
      cashToExpenses == sumAmount(st, "expense")
  IN  [ cashFromSales |-> cashFromSales, cashToSuppliers |-> cashToSuppliers,
        cashToExpenses |-> cashToExpenses,
        net |-> JsSub(JsSub(cashFromSales, cashToSuppliers), cashToExpenses) ]


\* ------------------------------------------------------------------- JSON
\* A JSON text is modelled by its parse tree: an object is the sequence of its
\* <<key, value>> members in the order JSON.stringify writes them, a scalar is a
\* token.  JSON has no NaN: JSON.stringify writes null for it.
jsonOfValue(v) ==
  CASE v.k = "number" -> [tok |-> "number", n |-> v.n]
    [] v.k = "nan" -> [tok |-> "null", n |-> 0]
    [] v.k = "null" -> [tok |-> "null", n |-> 0]
    [] v.k = "numeral" -> [tok |-> "string-numeral", n |-> v.n]
    [] v.k = "empty" -> [tok |-> "string-empty", n |-> 0]
    [] OTHER -> [tok |-> "string-text", n |-> 0]

valueOfJson(j) ==
  CASE j.tok = "number" -> Num(j.n)
    [] j.tok = "null" -> NullValue
    [] j.tok = "string-numeral" -> Numeral(j.n)
    [] j.tok = "string-empty" -> EmptyString
    [] OTHER -> TextValue

jsonOfParty(p) ==
  << <<"id", p.id>>, <<"name", p.name>>,
     <<"openingBalance", jsonOfValue(p.openingBalance)>> >>
partyOfJson(j) == [id |-> j[1][2], name |-> j[2][2], openingBalance |-> valueOfJson(j[3][2])]

jsonOfEntry(t) ==
  << <<"id", t.id>>, <<"type", t.type>>, <<"partyType", t.partyType>>,
     <<"partyId", t.partyId>>, <<"category", t.category>>,
     <<"amount", jsonOfValue(t.amount)>>, <<"paid", jsonOfValue(t.paid)>> >>
entryOfJson(j) ==
  [ id |-> j[1][2], type |-> j[2][2], partyType |-> j[3][2], partyId |-> j[4][2],
    category |-> j[5][2], amount |-> valueOfJson(j[6][2]), paid |-> valueOfJson(j[7][2]) ]

jsonOfUser(u) == << <<"username", u.username>>, <<"password", u.password>>, <<"role", u.role>> >>
userOfJson(j) == [username |-> j[1][2], password |-> j[2][2], role |-> j[3][2]]

jsonOfCompany(c) ==
  << <<"name", c.name>>, <<"currency", c.currency>>,
     <<"fiscalYearStartMonth", c.fiscalYearStartMonth>> >>
companyOfJson(j) == [name |-> j[1][2], currency |-> j[2][2], fiscalYearStartMonth |-> j[3][2]]


\* localStorage.getItem of a key never set (null), the <input type=file> with no
\* file chosen, and a text that is not JSON.
NoText == [json |-> "none"]
InvalidText == [json |-> "invalid"]

\* A serialisation that writes the ledger as an empty array.
JSONstringifyWithoutLedger(st) ==
  [ json |-> "object", members |-> st.keys,
    company |-> jsonOfCompany(st.company),
    users |-> [i \in 1..Len(st.users) |-> jsonOfUser(st.users[i])],
    clients |-> [i \in 1..Len(st.clients) |-> jsonOfParty(st.clients[i])],
    vendors |-> [i \in 1..Len(st.vendors) |-> jsonOfParty(st.vendors[i])],
    ledger |-> << >> ]

\* JSON.stringify(state), lines 71 and 1016: an undefined member is left out.
JSONstringify(st) ==
  [ json |-> "object", members |-> st.keys,
    company |-> jsonOfCompany(st.company),
    users |-> [i \in 1..Len(st.users) |-> jsonOfUser(st.users[i])],
    clients |-> [i \in 1..Len(st.clients) |-> jsonOfParty(st.clients[i])],
    vendors |-> [i \in 1..Len(st.vendors) |-> jsonOfParty(st.vendors[i])],
    ledger |-> [i \in 1..Len(st.ledger) |-> jsonOfEntry(st.ledger[i])] ]

\* JSON.parse of a text that is JSON, lines 61 and 1024.
JSONparse(text) ==
  [ keys |-> text.members,
    company |-> companyOfJson(text.company),
    users |-> [i \in 1..Len(text.users) |-> userOfJson(text.users[i])],
    clients |-> [i \in 1..Len(text.clients) |-> partyOfJson(text.clients[i])],
    vendors |-> [i \in 1..Len(text.vendors) |-> partyOfJson(text.vendors[i])],
    ledger |-> [i \in 1..Len(text.ledger) |-> entryOfJson(text.ledger[i])] ]

\* The guard of loadState and importData, lines 63 and 1025.
guardRejects(obj) ==
  "company" \notin obj.keys \/ "users" \notin obj.keys \/ "ledger" \notin obj.keys

\* loadState, lines 57-68.
loadState(raw) ==
  IF raw = NoText THEN defaultState
  ELSE IF raw.json # "object" THEN defaultState
  ELSE IF guardRejects(JSONparse(raw)) THEN defaultState
  ELSE JSONparse(raw)

\* Whether importData takes the file: JSON.parse succeeds and the guard passes.
importAccepts(text) == text.json = "object" /\ ~guardRejects(JSONparse(text))


\* ------------------------------------------------------------------ forms
Modes == {"sale", "purchase", "expense", "cash"}
Kinds == {"client", "vendor"}

\* typesForMode, lines 670-676; the first is the type a new entry opens with.
typesForMode(mode) ==
  CASE mode = "sale" -> <<"sale">>
    [] mode = "purchase" -> <<"purchase">>
    [] mode = "expense" -> <<"expense">>
    [] mode = "cash" -> <<"cash_in", "cash_out">>
    [] OTHER -> <<"sale">>

\* filterType, lines 557-563.
filterType(mode, t) ==
  CASE mode = "sale" -> t.type = "sale"
    [] mode = "purchase" -> t.type = "purchase"
    [] mode = "expense" -> t.type = "expense"
    [] mode = "cash" -> t.type = "cash_in" \/ t.type = "cash_out"
    [] OTHER -> TRUE

\* categoriesFor, lines 678-685.
categoriesFor(type) ==
  CASE type = "sale" -> <<"Sales">>
    [] type = "purchase" -> <<"COGS", "Asset", "Other">>
    [] type = "expense" -> <<"Office", "Fuel", "Salary", "Rent", "Electricity",
                             "Internet", "Transport", "Other">>
    [] type = "cash_in" -> <<"Receipt">>
    [] type = "cash_out" -> <<"Payment">>
    [] OTHER -> <<"Other">>

\* The options of the category <select> the model chooses among.
categoryChoices(type) ==
  { categoriesFor(type)[i] : i \in 1..Len(categoriesFor(type)) } \cap CategoryInputs

\* The party list a type's <select> is filled from, lines 687-695.
listOfType(type) ==
  IF type = "sale" \/ type = "cash_in" THEN {"clients"}
  ELSE IF type = "purchase" \/ type = "cash_out" THEN {"vendors"}
  ELSE {}

idsOf(list) == { list[i].id : i \in 1..Len(list) }

\* partyOptions, lines 687-695: the ids offered, NoId being "(No Party)".
partyOptions(st, type) ==
  IF type = "sale" \/ type = "cash_in" THEN {NoId} \cup idsOf(st.clients)
  ELSE IF type = "purchase" \/ type = "cash_out" THEN {NoId} \cup idsOf(st.vendors)
  ELSE {NoId}

\* The values of a number input: the numerals, and "" when it is cleared.
rawInputs(numerals) == { Numeral(n) : n \in numerals } \cup {EmptyString}

\* The values of a required number input (lines 653-654): the numerals, and
\* the 0 it is preset to.
requiredInputs(numerals) == { Numeral(n) : n \in numerals \cup {0} }

\* Whether the page of a party kind renders: list.map (line 418) needs the list.
partyPageRenders(st, kind) == partyKey(kind) \in st.keys

\* Whether a transactions page renders: partyName (lines 160-164, 596) reads the
\* party list of every row that names a party.
txnPageRenders(st, mode) ==
  \A i \in 1..Len(st.ledger) :
    LET t == st.ledger[i]
    IN  (filterType(mode, t) /\ t.partyType # "null" /\ t.partyId # NoId)
          => partyKey(t.partyType) \in st.keys

\* --------------------------------------------------------------- handlers
\* saveState, lines 70-72.
saveState(st) == storage' = JSONstringify(st)

\* The state after the submit handler of the party form, lines 515-527.
partyState(st, kind, hid, rawName, rawOpening, id) ==
  LET list == partyList(st, kind)
      existing == findIndex(list, id)
      obj == [id |-> id, name |-> trim(rawName), openingBalance |-> Num(safeNum(rawOpening))]
      list2 == IF existing # 0 THEN [list EXCEPT ![existing] = obj] ELSE Append(list, obj)
  IN  IF kind = "client" THEN [st EXCEPT !.clients = list2]
                         ELSE [st EXCEPT !.vendors = list2]

\* bindPartyModal's submit handler, lines 513-531.  hid is the hidden partyId
\* field: "" for Add, the party's id for Edit (openPartyModal, line 483).  The
\* form submits only when the required Name input (line 462) is not empty.
partyFormSubmit(kind, hid, rawName, rawOpening) ==
  /\ onPage("data")
  /\ partyPageRenders(state, kind)
  /\ rawName # << >>
  /\ hid = NoId => nextId <= MaxIds
  /\ LET id == IF hid # NoId THEN hid ELSE nextId
     IN  /\ state' = partyState(state, kind, hid, rawName, rawOpening, id)
         /\ saveState(state')
         /\ route(session, state', view.page)
  /\ nextId' = IF hid = NoId THEN nextId + 1 ELSE nextId
  /\ UNCHANGED <<download, pc, session>>

\* A delete that also removes the entries naming the party.
partyDeletedCascades(st, kind, id) ==
  LET list == partyList(st, kind)
      idx == findIndex(list, id)
      list2 == IF idx # 0 THEN splice(list, idx) ELSE list
      kept == SelectSeq(st.ledger, LAMBDA t : ~(t.partyType = kind /\ t.partyId = id))
  IN  IF kind = "client" THEN [st EXCEPT !.clients = list2, !.ledger = kept]
                         ELSE [st EXCEPT !.vendors = list2, !.ledger = kept]

\* The state after the delete branch of bindPartyTable, lines 503-505.
partyDeleted(st, kind, id) ==
  LET list == partyList(st, kind)
      idx == findIndex(list, id)
      list2 == IF idx # 0 THEN splice(list, idx) ELSE list
  IN  IF kind = "client" THEN [st EXCEPT !.clients = list2]
                         ELSE [st EXCEPT !.vendors = list2]

\* bindPartyTable's click handler, act = "del", lines 501-508.
partyDelete(kind, id, confirmed) ==
  /\ onPage("data")
  /\ partyPageRenders(state, kind)
  /\ IF confirmed
     THEN /\ state' = partyDeleted(state, kind, id)
          /\ saveState(state')
          /\ route(session, state', view.page)
     ELSE UNCHANGED <<state, storage, loginOpen, view>>
  /\ UNCHANGED <<download, nextId, pc, session>>

\* A partyType that is "client" for every entry with a party.
partyTypeOfAlwaysClient(type, partyId) ==
  IF type = "expense" \/ partyId = NoId THEN "null" ELSE "client"

\* partyType of the submit handler, lines 820-822.
partyTypeOf(type, partyId) ==
  IF type = "sale" \/ type = "cash_in" THEN (IF partyId # NoId THEN "client" ELSE "null")
  ELSE IF type = "purchase" \/ type = "cash_out"
       THEN (IF partyId # NoId THEN "vendor" ELSE "null")
  ELSE "null"

\* A submit handler that removes the edited entry and pushes the new one.
txnStateMovesToEnd(st, id, type, partyId, category, rawAmount, rawPaid) ==
  LET obj == [ id |-> id, type |-> type, partyType |-> partyTypeOf(type, partyId),
               partyId |-> partyId, category |-> category,
               amount |-> Num(safeNum(rawAmount)), paid |-> Num(safeNum(rawPaid)) ]
      existing == findIndex(st.ledger, id)
  IN  IF existing # 0 THEN [st EXCEPT !.ledger = Append(splice(@, existing), obj)]
                      ELSE [st EXCEPT !.ledger = Append(@, obj)]

\* The state after the submit handler of the transaction form, lines 817-840.
txnState(st, id, type, partyId, category, rawAmount, rawPaid) ==
  LET obj == [ id |-> id, type |-> type, partyType |-> partyTypeOf(type, partyId),
               partyId |-> partyId, category |-> category,
               amount |-> Num(safeNum(rawAmount)), paid |-> Num(safeNum(rawPaid)) ]
      existing == findIndex(st.ledger, id)
  IN  IF existing # 0 THEN [st EXCEPT !.ledger[existing] = obj]
                      ELSE [st EXCEPT !.ledger = Append(@, obj)]

\* The type the dialog opens with, line 711.
openType(st, mode, hid) ==
  IF hid = NoId THEN typesForMode(mode)[1]
  ELSE st.ledger[findIndex(st.ledger, hid)].type

\* The form's submit handler, lines 815-845.  hid is the hidden txnId field: ""
\* for Add, the entry's id for Edit (openTxn, line 706).  The dialog opens only
\* if partyOptions (line 715) can read the party list of the type it opens with.
txnFormSubmit(mode, hid, type, partyId, category, rawAmount, rawPaid) ==
  /\ onPage("data")
  /\ txnPageRenders(state, mode)
  /\ listOfType(openType(state, mode, hid)) \subseteq state.keys
  /\ listOfType(type) \subseteq state.keys
  /\ partyId \in partyOptions(state, type)
  /\ hid = NoId => nextId <= MaxIds
  /\ LET id == IF hid # NoId THEN hid ELSE nextId
     IN  /\ state' = txnState(state, id, type, partyId, category, rawAmount, rawPaid)
         /\ saveState(state')
         /\ route(session, state', view.page)
  /\ nextId' = IF hid = NoId THEN nextId + 1 ELSE nextId
  /\ UNCHANGED <<download, pc, session>>

\* The table's click handler, act = "del", lines 753-759.
txnDelete(mode, id, confirmed) ==
  /\ onPage("data")
  /\ txnPageRenders(state, mode)
  /\ IF confirmed
     THEN /\ LET idx == findIndex(state.ledger, id)
             IN  state' = IF idx # 0 THEN [state EXCEPT !.ledger = splice(@, idx)]
                                     ELSE state
          /\ saveState(state')
          /\ route(session, state', view.page)
     ELSE UNCHANGED <<state, storage, loginOpen, view>>
  /\ UNCHANGED <<download, nextId, pc, session>>

\* ---------------------------------------------------------------- actions
\* The ids of the rows a transactions page shows.
rowIds(st, mode) ==
  { st.ledger[i].id : i \in { j \in 1..Len(st.ledger) : filterType(mode, st.ledger[j]) } }

PartySave ==
  \E kind \in Kinds :
    \E hid \in {NoId} \cup idsOf(partyList(state, kind)) :
      \E rawName \in NameInputs :
        \E rawOpening \in rawInputs(OpeningInputs) :
          partyFormSubmit(kind, hid, rawName, rawOpening)

PartyDelete ==
  \E kind \in Kinds :
    \E id \in idsOf(partyList(state, kind)) :
      \E confirmed \in BOOLEAN :
        partyDelete(kind, id, confirmed)

TxnSave ==
  \E mode \in Modes :
    \E hid \in {NoId} \cup rowIds(state, mode) :
      \E i \in 1..Len(typesForMode(mode)) :
        LET type == typesForMode(mode)[i]
        IN  \E partyId \in partyOptions(state, type) :
              \E category \in categoryChoices(type) :
                \E rawAmount \in requiredInputs(AmountInputs) :
                  \E rawPaid \in requiredInputs(PaidInputs) :
                    txnFormSubmit(mode, hid, type, partyId, category, rawAmount, rawPaid)

TxnDelete ==
  \E mode \in Modes :
    \E id \in rowIds(state, mode) :
      \E confirmed \in BOOLEAN :
        txnDelete(mode, id, confirmed)

\* The session after tryLogin("admin", "admin123"), lines 103-111.
AdminSession == [username |-> "admin", role |-> "admin"]

\* The party and ledger-entry operations from a first run (empty localStorage:
\* loadState returns defaultState and line 1079 saves it), after the login as
\* admin and on a page of the records.
CrudInit ==
  /\ state = defaultState
  /\ storage = JSONstringify(defaultState)
  /\ download = NoText
  /\ nextId = 1
  /\ pc = "run"
  /\ session = AdminSession
  /\ loginOpen = FALSE
  /\ view = rendered("data", state, session)

CrudNext == PartySave \/ PartyDelete \/ TxnSave \/ TxnDelete

CrudSpec == CrudInit /\ [][CrudNext]_vars

\* ------------------------------------------------- the forms, other inputs
\* The party form with names that carry blanks.
PartySavePadded ==
  \E kind \in Kinds :
    \E hid \in {NoId} \cup idsOf(partyList(state, kind)) :
      \E rawName \in PaddedNameInputs :
        \E rawOpening \in rawInputs(OpeningInputs) :
          partyFormSubmit(kind, hid, rawName, rawOpening)

PartyFormSpec == CrudInit /\ [][PartySavePadded]_vars

\* The transaction form with negative numerals: the Amount and Paid Now inputs
\* (lines 653-654) have no min attribute.
TxnSaveSigned ==
  \E mode \in Modes :
    \E hid \in {NoId} \cup rowIds(state, mode) :
      \E i \in 1..Len(typesForMode(mode)) :
        LET type == typesForMode(mode)[i]
        IN  \E partyId \in partyOptions(state, type) :
              \E category \in categoryChoices(type) :
                \E rawAmount \in requiredInputs(SignedInputs) :
                  \E rawPaid \in requiredInputs(SignedInputs) :
                    txnFormSubmit(mode, hid, type, partyId, category, rawAmount, rawPaid)

TxnFormNext == PartySave \/ TxnSaveSigned

TxnFormSpec == CrudInit /\ [][TxnFormNext]_vars



\* ------------------------------------------------- import, export, reset
\* How many party and ledger records a snapshot holds.
recordsIn(st) == Len(st.clients) + Len(st.vendors) + Len(st.ledger)

\* An onload handler that assigns the parsed object before the guard runs.
importDataAssignsFirst(file) ==
  IF file # NoText /\ file.json = "object"
  THEN /\ state' = JSONparse(file)
       /\ IF importAccepts(file)
          THEN saveState(state') /\ route(session, state', view.page)
          ELSE UNCHANGED <<storage, loginOpen, view>>
  ELSE UNCHANGED <<state, storage, loginOpen, view>>

\* reader.onload of importData, lines 1022-1034: the parsed object replaces
\* state as it is, or the import fails and state stays.
importData(file) ==
  IF file # NoText /\ importAccepts(file)
  THEN /\ state' = JSONparse(file)
       /\ saveState(state')
       /\ route(session, state', view.page)
  ELSE UNCHANGED <<state, storage, loginOpen, view>>

\* exportData, lines 1014-1017.
exportData == download' = JSONstringify(state)

\* The click handler of btnReset, lines 1041-1047.
btnReset(confirmed) ==
  /\ ~loginOpen
  /\ IF confirmed
     THEN /\ state' = defaultState
          /\ saveState(state')
          /\ route(session, state', view.page)
     ELSE UNCHANGED <<state, storage, loginOpen, view>>
  /\ UNCHANGED <<download, nextId, pc, session>>

\* A page load: line 84 reads state back from localStorage, line 85 the session
\* from sessionStorage, line 1079 saves the state when localStorage holds
\* nothing, and line 1097 routes to the page of the hash, in a new document.
pageLoad ==
  /\ state' = loadState(storage)
  /\ storage' = IF storage = NoText THEN JSONstringify(state') ELSE storage
  /\ loginOpen' = (session = NoSession)
  /\ view' = IF session = NoSession THEN NothingRendered
             ELSE rendered(IF view.page = "none" THEN "data" ELSE view.page, state', session)
  /\ UNCHANGED <<download, nextId, pc, session>>

\* A backup file: one client whose openingBalance is text, one sale of that
\* client whose paid is null.
BackupSnapshot ==
  [ defaultState EXCEPT
      !.clients = << [id |-> 101, name |-> <<"A">>, openingBalance |-> TextValue] >>,
      !.ledger = << [ id |-> 102, type |-> "sale", partyType |-> "client", partyId |-> 101,
                      category |-> "Sales", amount |-> Num(3), paid |-> NullValue ] >> ]

\* The same file with one top-level key left out.
without(st, key) ==
  [ keys |-> st.keys \ {key},
    company |-> st.company,
    users |-> IF key = "users" THEN << >> ELSE st.users,
    clients |-> IF key = "clients" THEN << >> ELSE st.clients,
    vendors |-> IF key = "vendors" THEN << >> ELSE st.vendors,
    ledger |-> IF key = "ledger" THEN << >> ELSE st.ledger ]

\* The files the user picks for an import: none, a text that is not JSON, the
\* backup, and the backup with one top-level key missing.
ImportFiles ==
  {NoText, InvalidText, JSONstringify(BackupSnapshot)}
    \cup { JSONstringify(without(BackupSnapshot, key)) : key \in AllKeys }

\* The records of an imported file were made by uid() too: they count against MaxIds.
Import ==
  \E file \in ImportFiles :
    /\ ~loginOpen
    /\ (file # NoText /\ importAccepts(file))
         => nextId + recordsIn(JSONparse(file)) <= MaxIds + 1
    /\ importData(file)
    /\ nextId' = IF file # NoText /\ importAccepts(file)
                 THEN nextId + recordsIn(JSONparse(file)) ELSE nextId
    /\ UNCHANGED <<download, pc, session>>

Reset == \E confirmed \in BOOLEAN : btnReset(confirmed)

PageLoad == pageLoad

\* A first run: localStorage is empty, loadState returns defaultState and line
\* 1079 saves it; then the login as admin, which renders the dashboard.
Init ==
  /\ state = loadState(NoText)
  /\ storage = JSONstringify(state)
  /\ download = NoText
  /\ nextId = 1
  /\ pc = "run"
  /\ session = AdminSession
  /\ loginOpen = FALSE
  /\ view = rendered("data", state, session)

Next == PartySave \/ PartyDelete \/ TxnSave \/ TxnDelete \/ Import \/ Reset \/ PageLoad

Spec == Init /\ [][Next]_vars

\* ------------------------------------------------------ login and settings
\* Array.prototype.find over state.users: the first index that matches, or 0.
RECURSIVE findUser(_, _, _, _)
findUser(users, username, password, i) ==
  IF i > Len(users) THEN 0
  ELSE IF users[i].username = username /\ (password = "any" \/ users[i].password = password)
       THEN i
  ELSE findUser(users, username, password, i + 1)

\* The submit handler of loginForm with tryLogin, lines 103-130; the names are
\* typed without blanks around them.  After a login route() renders the page
\* of the hash, which the user may have changed meanwhile.
loginFormSubmit(username, password, path) ==
  /\ loginOpen
  /\ LET i == findUser(state.users, username, password, 1)
     IN  IF i = 0
         THEN UNCHANGED <<session, loginOpen, view>>
         ELSE /\ session' = [username |-> state.users[i].username, role |-> state.users[i].role]
              /\ loginOpen' = FALSE
              /\ view' = rendered(path, state, session')
  /\ UNCHANGED <<state, storage, download, nextId, pc>>

\* The click handler of btnLogout, lines 132-136: the page stays as rendered,
\* under the modal login dialog.
btnLogout ==
  /\ ~loginOpen
  /\ session' = NoSession
  /\ loginOpen' = TRUE
  /\ UNCHANGED <<state, storage, download, nextId, pc, view>>

\* Esc in the login dialog: a <dialog> opened with showModal() (lines 95, 135)
\* is closed by it, and no handler of the program listens to the cancel event.
loginDialogCancel ==
  /\ loginOpen
  /\ loginOpen' = FALSE
  /\ UNCHANGED <<state, storage, download, nextId, pc, session, view>>

\* hashchange, line 1075: a click on a link of the navigation.
hashchange(path) ==
  /\ ~loginOpen
  /\ route(session, state, path)
  /\ UNCHANGED <<state, storage, download, nextId, pc, session>>

\* The value of the #setUser select: one of its options, "" when it has none.
userSelValues == IF view.userSel = << >> THEN {""}
                 ELSE { view.userSel[i] : i \in 1..Len(view.userSel) }

\* The click handler of btnSavePass, lines 997-1007.
btnSavePass(uname, newPass) ==
  /\ onPage("settings")
  /\ LET i == findUser(state.users, uname, "any", 1)
     IN  IF newPass = "" \/ Len(newPass) < 4 \/ i = 0
         THEN UNCHANGED <<state, storage>>
         ELSE /\ state' = [state EXCEPT !.users[i].password = newPass]
              /\ saveState(state')
  /\ UNCHANGED <<download, nextId, pc, session, loginOpen, view>>

\* The click handler of btnSaveCompany, lines 982-988.
btnSaveCompany(rawName, rawCurrency) ==
  /\ onPage("settings")
  /\ state' = [state EXCEPT
                 !.company.name = IF trim(rawName) = << >> THEN MyBusiness ELSE trim(rawName),
                 !.company.currency = IF trim(rawCurrency) = << >> THEN PKR ELSE trim(rawCurrency)]
  /\ saveState(state')
  /\ route(session, state', view.page)
  /\ UNCHANGED <<download, nextId, pc, session>>

Login == \E username \in LoginNames : \E password \in LoginPasswords : \E path \in Paths :
           loginFormSubmit(username, password, path)

Logout == btnLogout

DismissLogin == loginDialogCancel

Navigate == \E path \in Paths : hashchange(path)

PasswordUpdate == \E uname \in userSelValues : \E newPass \in PasswordInputs :
                    btnSavePass(uname, newPass)

CompanySave == \E rawName \in CompanyNameInputs : \E rawCurrency \in CurrencyInputs :
                 btnSaveCompany(rawName, rawCurrency)

\* A first run in a new tab: no stored state, no stored session; route() (line
\* 1097) shows the login dialog and renders nothing.
SessionInit ==
  /\ state = loadState(NoText)
  /\ storage = JSONstringify(state)
  /\ download = NoText
  /\ nextId = 1
  /\ pc = "run"
  /\ session = NoSession
  /\ loginOpen = TRUE
  /\ view = NothingRendered

SessionNext ==
  Login \/ Logout \/ DismissLogin \/ Navigate \/ PasswordUpdate \/ CompanySave \/ PageLoad

SessionSpec == SessionInit /\ [][SessionNext]_vars

\* ------------------------------------------------------- the whole app
DemoTrading == <<"D", "e", "m", "o", " ", "T", "r", "a", "d", "i", "n", "g">>

\* The state seedDemo builds, lines 140-156; uid() hands out first .. first + 7.
demoState(first) ==
  LET c1 == first
      c2 == first + 1
      v1 == first + 2
  IN  [ defaultState EXCEPT
          !.company.name = DemoTrading,
          !.clients = << [id |-> c1, name |-> <<"A", "l", "i">>, openingBalance |-> Num(12000)],
                         [id |-> c2, name |-> <<"K", "h", "a", "n">>, openingBalance |-> Num(0)] >>,
          !.vendors = << [id |-> v1, name |-> <<"A", "B", "C">>, openingBalance |-> Num(8000)] >>,
          !.ledger =
            << [ id |-> first + 3, type |-> "sale", partyType |-> "client", partyId |-> c1,
                 category |-> "Sales", amount |-> Num(55000), paid |-> Num(20000) ],
               [ id |-> first + 4, type |-> "purchase", partyType |-> "vendor", partyId |-> v1,
                 category |-> "COGS", amount |-> Num(40000), paid |-> Num(10000) ],
               [ id |-> first + 5, type |-> "expense", partyType |-> "null", partyId |-> NoId,
                 category |-> "Fuel", amount |-> Num(3000), paid |-> Num(3000) ],
               [ id |-> first + 6, type |-> "cash_in", partyType |-> "client", partyId |-> c1,
                 category |-> "Receipt", amount |-> Num(5000), paid |-> Num(5000) ],
               [ id |-> first + 7, type |-> "cash_out", partyType |-> "vendor", partyId |-> v1,
                 category |-> "Payment", amount |-> Num(7000), paid |-> Num(7000) ] >> ]

\* seedDemo, lines 139-158: the demo state replaces state and is saved.
seedDemo ==
  /\ state' = demoState(nextId)
  /\ saveState(state')
  /\ nextId' = nextId + recordsIn(state')

\* A page load with demo=1 in the URL, lines 1079-1097: what loadState read is
\* thrown away by seedDemo, and route() renders the page of the hash.
SeedDemo ==
  /\ nextId <= MaxIds
  /\ seedDemo
  /\ loginOpen' = (session = NoSession)
  /\ view' = IF session = NoSession THEN NothingRendered
             ELSE rendered(IF view.page = "none" THEN "data" ELSE view.page, state', session)
  /\ UNCHANGED <<download, pc, session>>

\* The party and entry operations while uid() has handed out fewer than MaxIds - 1 ids.
SmallStore == nextId < MaxIds

StorePartySave == SmallStore /\ PartySave
StorePartyDelete == SmallStore /\ PartyDelete
StoreTxnSave == SmallStore /\ TxnSave
StoreTxnDelete == SmallStore /\ TxnDelete

\* Every operation that writes state, from a first run and the login as admin.
AppNext ==
  \/ StorePartySave \/ StorePartyDelete \/ StoreTxnSave \/ StoreTxnDelete
  \/ Import \/ Reset \/ PageLoad \/ SeedDemo
  \/ Navigate \/ CompanySave \/ PasswordUpdate

AppSpec == Init /\ [][AppNext]_vars

\* ------------------------------------------------ export / import round trip
\* The valid snapshots the round trip starts from: at most one client, one
\* vendor and one ledger entry, over the values the forms store.
SnapshotParties(id) ==
  {<< >>} \cup { << [id |-> id, name |-> n, openingBalance |-> Num(b)] >> :
                    n \in NameInputs, b \in OpeningInputs \cup {0} }

SnapshotEntries ==
  UNION { { txnState(defaultState, 3, type, partyId, categoriesFor(type)[1], a, p).ledger :
              partyId \in IF listOfType(type) = {"clients"} THEN {NoId, 1}
                          ELSE IF listOfType(type) = {"vendors"} THEN {NoId, 2}
                          ELSE {NoId},
              a \in requiredInputs(AmountInputs), p \in requiredInputs(PaidInputs) } :
          type \in {"sale", "purchase", "expense", "cash_in", "cash_out"} }

Snapshots ==
  { [defaultState EXCEPT !.clients = c, !.vendors = v, !.ledger = l] :
      c \in SnapshotParties(1), v \in SnapshotParties(2), l \in {<< >>} \cup SnapshotEntries }

RoundTripInit ==
  /\ state \in Snapshots
  /\ storage = JSONstringify(state)
  /\ download = NoText
  /\ nextId = 4
  /\ pc = "start"
  /\ session = AdminSession
  /\ loginOpen = FALSE
  /\ view = rendered("data", state, session)

Export ==
  /\ pc = "start"
  /\ ~loginOpen
  /\ exportData
  /\ pc' = "exported"
  /\ UNCHANGED <<state, storage, nextId, session, loginOpen, view>>

ImportExported ==
  /\ pc = "exported"
  /\ ~loginOpen
  /\ importData(download)
  /\ pc' = "imported"
  /\ UNCHANGED <<download, nextId, session>>

RoundTripNext == Export \/ ImportExported

RoundTripSpec == RoundTripInit /\ [][RoundTripNext]_vars

\* ------------------------------------------------- add, then delete
\* The records are built first; exportData then keeps a copy of the state in
\* the downloaded file, an entry is added with the Add dialog, and the row of
\* that entry is deleted.  Before is the state the file holds.
Before == JSONparse(download)

BuildPartySave == download = NoText /\ StorePartySave
BuildPartyDelete == download = NoText /\ StorePartyDelete
BuildTxnSave == download = NoText /\ StoreTxnSave
BuildTxnDelete == download = NoText /\ StoreTxnDelete

ExportBefore ==
  /\ download = NoText
  /\ ~loginOpen
  /\ exportData
  /\ UNCHANGED <<state, storage, nextId, pc, session, loginOpen, view>>

\* btnAddTxn opens the dialog with an empty txnId (openTxn(null), line 735).
AddEntry ==
  /\ download # NoText
  /\ Len(state.ledger) = Len(Before.ledger)
  /\ \E mode \in Modes :
       \E i \in 1..Len(typesForMode(mode)) :
         LET type == typesForMode(mode)[i]
         IN  \E partyId \in partyOptions(state, type) :
               \E category \in categoryChoices(type) :
                 \E rawAmount \in requiredInputs(AmountInputs) :
                   \E rawPaid \in requiredInputs(PaidInputs) :
                     txnFormSubmit(mode, NoId, type, partyId, category, rawAmount, rawPaid)

\* The Delete button of the row of the entry just added: uid() gave it nextId - 1.
DeleteAdded ==
  /\ download # NoText
  /\ Len(state.ledger) = Len(Before.ledger) + 1
  /\ \E mode \in Modes :
       /\ (nextId - 1) \in rowIds(state, mode)
       /\ txnDelete(mode, nextId - 1, TRUE)

AddDeleteNext ==
  \/ BuildPartySave \/ BuildPartyDelete \/ BuildTxnSave \/ BuildTxnDelete
  \/ ExportBefore \/ AddEntry \/ DeleteAdded

AddDeleteSpec == CrudInit /\ [][AddDeleteNext]_vars

\* ------------------------------------------------------ imported ledgers
\* An imported file may hold any ledger: importData checks no entry.  The files
\* here hold up to MaxFileEntries entries with no party, of every type, the
\* purchases with the categories "COGS", "cogs" and "Asset".
MaxFileEntries == 3

FileCategories(type) == IF type = "purchase" THEN {"COGS", "cogs", "Asset"} ELSE {categoriesFor(type)[1]}

FileEntries ==
  UNION { { [ id |-> 200, type |-> type, partyType |-> "null", partyId |-> NoId,
              category |-> category, amount |-> Num(a), paid |-> Num(p) ] :
              category \in FileCategories(type), a \in {3}, p \in {2} } :
          type \in {"sale", "purchase", "expense", "cash_in", "cash_out"} }

RECURSIVE FileLedgers(_)
FileLedgers(n) ==
  IF n = 0 THEN {<< >>}
  ELSE FileLedgers(n - 1)
         \cup { Append(l, [t EXCEPT !.id = 200 + Len(l)]) :
                  l \in { k \in FileLedgers(n - 1) : Len(k) = n - 1 }, t \in FileEntries }

LedgerFiles ==
  { JSONstringify([defaultState EXCEPT !.ledger = l]) : l \in FileLedgers(MaxFileEntries) }

ImportLedger ==
  \E file \in LedgerFiles :
    /\ ~loginOpen
    /\ importData(file)
    /\ UNCHANGED <<download, nextId, pc, session>>

LedgerSpec == Init /\ [][ImportLedger]_vars

\* ----------------------------------------------------------------- claims
\* The (partyType, partyId) pairs that ledger entries name.
partyRefs(st) ==
  { <<st.ledger[i].partyType, st.ledger[i].partyId>> :
      i \in { j \in 1..Len(st.ledger) :
                st.ledger[j].partyType # "null" /\ st.ledger[j].partyId # NoId } }

\* The pairs that name a party no longer in its list.
danglingRefs(st) == { r \in partyRefs(st) : r[2] \notin idsOf(partyList(st, r[1])) }

\* What one entry adds to the balance b of the party (partyType, id): the unpaid
\* part of a sale / purchase, minus a receipt / payment, nothing otherwise.
withEntry(b, t, partyType, id) ==
  IF t.partyType # partyType \/ t.partyId # id THEN b
  ELSE IF (partyType = "client" /\ t.type = "sale") \/ (partyType = "vendor" /\ t.type = "purchase")
       THEN JsAdd(b, JsSub(safeNum(t.amount), safeNum(t.paid)))
  ELSE IF (partyType = "client" /\ t.type = "cash_in") \/ (partyType = "vendor" /\ t.type = "cash_out")
       THEN JsSub(b, safeNum(t.amount))
  ELSE b

\* The balance after the first n entries of the ledger, from the balance b0.
RECURSIVE balanceAfter(_, _, _, _, _)
balanceAfter(b0, ledger, n, partyType, id) ==
  IF n = 0 THEN b0
  ELSE withEntry(balanceAfter(b0, ledger, n - 1, partyType, id), ledger[n], partyType, id)

\* The opening balance on record for a party, 0 when the party is not in its list.
openingOnRecord(st, partyType, id) ==
  LET list == partyList(st, partyType)
      found == { i \in 1..Len(list) : list[i].id = id }
  IN  IF found = {} THEN 0 ELSE safeNum(list[CHOOSE i \in found : TRUE].openingBalance)

\* The opening balances of a list, added up in list order.
RECURSIVE sumOpening(_, _)
sumOpening(list, n) ==
  IF n = 0 THEN 0 ELSE JsAdd(sumOpening(list, n - 1), safeNum(list[n].openingBalance))

\* The balances of the parties of a list, added up in list order.
RECURSIVE sumBalances(_, _, _)
sumBalances(st, kind, n) ==
  IF n = 0 THEN 0
  ELSE JsAdd(sumBalances(st, kind, n - 1), calcPartyBalance(st, kind, partyList(st, kind)[n].id))

\* The ledger in another order.
Orders(n) == { f \in [1..n -> 1..n] : \A i, j \in 1..n : f[i] = f[j] => i = j }
reordered(st, f) == [st EXCEPT !.ledger = [i \in 1..Len(st.ledger) |-> st.ledger[f[i]]]]

\* C1: in every state reached by party and ledger-entry operations,
\* totals().cash equals cashFlow().net.
C1_CashEqualsNet == totals(state).cash = cashFlow(state).net

\* C2: in every reachable state, also after a party that entries name was
\* deleted, totals().receivable is the sum of calcPartyBalance over the clients
\* in the store and totals().payable the sum over the vendors in the store.
C2_ReceivableIsSumOfBalances ==
  /\ totals(state).receivable = sumBalances(state, "client", Len(state.clients))
  /\ totals(state).payable = sumBalances(state, "vendor", Len(state.vendors))

\* C3 as stated: the balance of a deleted party that entries still name is 0,
\* whatever the amounts and paid values of those entries.
C3_MissingPartyBalanceIsZero ==
  \A r \in danglingRefs(state) : calcPartyBalance(state, r[1], r[2]) = 0

\* C3 as amended: the balance of a deleted party that entries still name is
\* computed without a failure and is 0 plus what those entries add in ledger
\* order; only the opening balance of the deleted party drops out.
C3_MissingPartyBalanceIsEntriesOnly ==
  \A r \in danglingRefs(state) :
    /\ ~calcPartyBalanceThrows(state, r[1], r[2])
    /\ calcPartyBalance(state, r[1], r[2])
         = balanceAfter(0, state.ledger, Len(state.ledger), r[1], r[2])

\* C3 witness: a party was deleted, an entry still names it, and its balance is not 0.
C3_Witness ==
  \E r \in danglingRefs(state) : calcPartyBalance(state, r[1], r[2]) # 0

\* A step that removes a party (in CrudSpec only partyDelete shortens a party list).
clientRemoved == Len(state'.clients) < Len(state.clients)
vendorRemoved == Len(state'.vendors) < Len(state.vendors)

flowTotals(st) ==
  LET t == totals(st)
  IN  <<t.sales, t.purchases, t.cogs, t.expenses, t.cashIn, t.cashOut, t.cash, t.profit>>

\* C4: deleting a client or vendor removes only that party record: the ledger
\* (also the entries that name the party) and the other party list are
\* unchanged, and so are sales, purchases, cogs, expenses, cashIn, cashOut,
\* cash and profit.
C4_PartyDeleteFrame ==
  [][ (clientRemoved \/ vendorRemoved) =>
        /\ state'.ledger = state.ledger
        /\ clientRemoved =>
             /\ state'.vendors = state.vendors
             /\ \E i \in 1..Len(state.clients) : state'.clients = splice(state.clients, i)
        /\ vendorRemoved =>
             /\ state'.clients = state.clients
             /\ \E i \in 1..Len(state.vendors) : state'.vendors = splice(state.vendors, i)
        /\ flowTotals(state') = flowTotals(state) ]_vars

\* C4 witness: a party was deleted while an entry with an amount names it.
C4_Witness ==
  \E i \in 1..Len(state.ledger) :
    /\ <<state.ledger[i].partyType, state.ledger[i].partyId>> \in danglingRefs(state)
    /\ safeNum(state.ledger[i].amount) # 0

\* C5: the balance of a party is its opening balance (0 if it is not in its
\* list) plus (amount - paid) of each of its sales (purchases) minus amount of
\* each of its cash_in (cash_out) entries, other entries adding nothing; it does
\* not depend on the order of the ledger, and a negative result is returned as is.
C5_BalanceFormula ==
  \A kind \in Kinds : \A id \in 1..(nextId - 1) :
    /\ calcPartyBalance(state, kind, id)
         = balanceAfter(openingOnRecord(state, kind, id), state.ledger,
                        Len(state.ledger), kind, id)
    /\ \A f \in Orders(Len(state.ledger)) :
         calcPartyBalance(reordered(state, f), kind, id) = calcPartyBalance(state, kind, id)

\* C10: with an empty ledger, receivable is the sum of the clients' opening
\* balances, payable the sum of the vendors', and sales, purchases, expenses
\* and cash are 0.
C10_ZeroLedgerBaseline ==
  state.ledger = << >> =>
    LET t == totals(state)
    IN  /\ t.receivable = sumOpening(state.clients, Len(state.clients))
        /\ t.payable = sumOpening(state.vendors, Len(state.vendors))
        /\ t.sales = 0 /\ t.purchases = 0 /\ t.expenses = 0 /\ t.cash = 0

\* C10 witness: an empty ledger with clients and vendors whose opening balances are not 0.
C10_Witness ==
  /\ state.ledger = << >>
  /\ state.clients # << >> /\ state.vendors # << >>
  /\ sumOpening(state.clients, Len(state.clients)) # 0
  /\ sumOpening(state.vendors, Len(state.vendors)) # 0


\* C6: the loader (importData, and loadState) rejects every snapshot that lacks
\* one of the keys clients, vendors, ledger, company: no such snapshot becomes
\* the in-memory state.
C6_StateHasAllKeys == {"clients", "vendors", "ledger", "company"} \subseteq state.keys

\* C7: in every state reached by party and ledger-entry operations, imports the
\* importer accepts and resets, totals(), balanceSheet(), cashFlow() and the
\* party balance complete without an error.
C7_CalculationsNeverFail ==
  /\ ~totalsThrows(state)
  /\ \A kind \in Kinds : \A id \in idsOf(state.clients) \cup idsOf(state.vendors) \cup {1} :
       ~calcPartyBalanceThrows(state, kind, id)

RECURSIVE sumOfType(_, _, _, _)
sumOfType(ledger, n, type, field) ==
  IF n = 0 THEN 0
  ELSE IF ledger[n].type = type
       THEN JsAdd(sumOfType(ledger, n - 1, type, field),
                  safeNum(IF field = "paid" THEN ledger[n].paid ELSE ledger[n].amount))
       ELSE sumOfType(ledger, n - 1, type, field)

\* The amounts of the purchases whose category is exactly "COGS".
RECURSIVE sumCogs(_, _)
sumCogs(ledger, n) ==
  IF n = 0 THEN 0
  ELSE IF ledger[n].type = "purchase" /\ ledger[n].category = "COGS"
       THEN JsAdd(sumCogs(ledger, n - 1), safeNum(ledger[n].amount))
       ELSE sumCogs(ledger, n - 1)

\* C11: totals().cash is (paid of the sales + amount of the cash_in entries)
\* minus (paid of the purchases + amount of the expenses + amount of the
\* cash_out entries), every entry of those types counted, with or without a party.
C11_CashFormula ==
  LET l == state.ledger
      n == Len(state.ledger)
  IN  totals(state).cash
        = JsSub(JsAdd(sumOfType(l, n, "sale", "paid"), sumOfType(l, n, "cash_in", "amount")),
                JsAdd(JsAdd(sumOfType(l, n, "purchase", "paid"),
                            sumOfType(l, n, "expense", "amount")),
                      sumOfType(l, n, "cash_out", "amount")))

\* C11 witness: a sale of a client with a paid part and a cash_out with no
\* party, the cash being the paid part minus the cash_out.
C11_Witness ==
  /\ \E i \in 1..Len(state.ledger) :
       /\ state.ledger[i].type = "sale" /\ state.ledger[i].partyId # NoId
       /\ safeNum(state.ledger[i].paid) # 0
  /\ \E i \in 1..Len(state.ledger) :
       /\ state.ledger[i].type = "cash_out" /\ state.ledger[i].partyId = NoId
       /\ safeNum(state.ledger[i].amount) # 0
  /\ totals(state).cash # 0

\* C12: totals().profit is the amount of the sales minus the amount of the
\* purchases whose category is exactly "COGS" minus the amount of the expenses;
\* purchases of another category ("cogs" too) and cash_in / cash_out entries
\* do not change it.
C12_ProfitFormula ==
  LET l == state.ledger
      n == Len(state.ledger)
  IN  totals(state).profit
        = JsSub(JsSub(sumOfType(l, n, "sale", "amount"), sumCogs(l, n)),
                sumOfType(l, n, "expense", "amount"))

\* C12 witness: a sale and a purchase of category "cogs", the profit being the
\* whole amount of the sale.
C12_Witness ==
  /\ \E i \in 1..Len(state.ledger) :
       state.ledger[i].type = "purchase" /\ state.ledger[i].category = "cogs"
  /\ \E i \in 1..Len(state.ledger) :
       /\ state.ledger[i].type = "sale"
       /\ totals(state).profit = safeNum(state.ledger[i].amount)
       /\ totals(state).profit # 0

\* C13: the balance sheet has the assets Cash (totals().cash) and Receivable
\* (totals().receivable), the one liability Payable (totals().payable), and its
\* equity is cash + receivable - payable.
C13_BalanceSheet ==
  LET t == totals(state)
      bs == balanceSheet(state)
  IN  /\ Len(bs.assets) = 2
      /\ bs.assets[1] = [name |-> "Cash", value |-> t.cash]
      /\ bs.assets[2].value = t.receivable
      /\ Len(bs.liabilities) = 1
      /\ bs.liabilities[1].value = t.payable
      /\ bs.equity = JsSub(JsAdd(t.cash, t.receivable), t.payable)

\* C13 witness: cash, receivable and payable are all not 0.
C13_Witness ==
  /\ totals(state).cash # 0
  /\ totals(state).receivable # 0
  /\ totals(state).payable # 0

\* C14: after ledger-entry saves, in every entry partyType is "client" only
\* if type is sale or cash_in, "vendor" only if type is purchase or cash_out, and
\* null when type is expense or when no party was selected.
C14_PartyTypeMatchesType ==
  \A i \in 1..Len(state.ledger) :
    LET t == state.ledger[i]
    IN  /\ t.partyType = "client" => t.type \in {"sale", "cash_in"}
        /\ t.partyType = "vendor" => t.type \in {"purchase", "cash_out"}
        /\ (t.type = "expense" \/ t.partyId = NoId) => t.partyType = "null"

\* C14 witness: the ledger holds an entry of a client and an entry with no party.
C14_Witness ==
  /\ \E i \in 1..Len(state.ledger) : state.ledger[i].partyType = "client"
  /\ \E i \in 1..Len(state.ledger) : state.ledger[i].partyType = "null"

\* C15: after ledger-entry saves with any numeric input, every entry has
\* amount >= 0 and paid >= 0.
C15_AmountsNotNegative ==
  \A i \in 1..Len(state.ledger) :
    safeNum(state.ledger[i].amount) >= 0 /\ safeNum(state.ledger[i].paid) >= 0

\* C16: after party saves whose Name input was not empty (also a name made of
\* blanks only), every client and vendor has a name that is not empty.
C16_NamesNotEmpty ==
  /\ \A i \in 1..Len(state.clients) : state.clients[i].name # << >>
  /\ \A i \in 1..Len(state.vendors) : state.vendors[i].name # << >>

\* The lists of the store, and the ids in them.
allIds(st) == idsOf(st.clients) \cup idsOf(st.vendors) \cup idsOf(st.ledger)
sameIdsInPlace(old, new) ==
  Len(new) = Len(old) /\ \A i \in 1..Len(old) : new[i].id = old[i].id
changedAt(old, new) == { i \in 1..Len(old) : new[i] # old[i] }
appended(old, new, id) ==
  Len(new) = Len(old) + 1 /\ SubSeq(new, 1, Len(old)) = old /\ new[Len(new)].id = id

\* C17: a save with an id (edit) keeps the length of every list, keeps every
\* id at its position, changes at most one record and brings no new id; a
\* save with no id (add) appends one record with a new id to one list and
\* leaves the rest as it is.
C17_EditInPlace ==
  [][ (Len(state'.clients) >= Len(state.clients) /\ Len(state'.vendors) >= Len(state.vendors)
         /\ Len(state'.ledger) >= Len(state.ledger)) =>
        IF nextId' = nextId
        THEN /\ sameIdsInPlace(state.clients, state'.clients)
             /\ sameIdsInPlace(state.vendors, state'.vendors)
             /\ sameIdsInPlace(state.ledger, state'.ledger)
             /\ Cardinality(changedAt(state.clients, state'.clients))
                  + Cardinality(changedAt(state.vendors, state'.vendors))
                  + Cardinality(changedAt(state.ledger, state'.ledger)) <= 1
        ELSE /\ nextId \notin allIds(state)
             /\ \/ /\ appended(state.clients, state'.clients, nextId)
                   /\ state'.vendors = state.vendors /\ state'.ledger = state.ledger
                \/ /\ appended(state.vendors, state'.vendors, nextId)
                   /\ state'.clients = state.clients /\ state'.ledger = state.ledger
                \/ /\ appended(state.ledger, state'.ledger, nextId)
                   /\ state'.clients = state.clients /\ state'.vendors = state.vendors ]_vars

\* C17 witness: an entry names a party that was added after it, which only an
\* edit of the entry can bring about, and the entry is still the first of two.
C17_Witness ==
  /\ Len(state.ledger) = 2
  /\ state.ledger[1].partyId > state.ledger[1].id
  /\ state.ledger[1].id < state.ledger[2].id

\* C20: deleting a client changes totals().receivable by exactly minus the
\* client's (coerced) openingBalance, and deleting a vendor changes
\* totals().payable by exactly minus the vendor's: what the entries that still
\* name the deleted party leave outstanding keeps being counted.
C20_DeleteDropsOpeningOnly ==
  [][ /\ clientRemoved =>
           \E i \in 1..Len(state.clients) :
             /\ state'.clients = splice(state.clients, i)
             /\ totals(state').receivable
                  = totals(state).receivable - safeNum(state.clients[i].openingBalance)
      /\ vendorRemoved =>
           \E i \in 1..Len(state.vendors) :
             /\ state'.vendors = splice(state.vendors, i)
             /\ totals(state').payable
                  = totals(state).payable - safeNum(state.vendors[i].openingBalance) ]_vars

\* Whether the session may change the password of a user: role admin any
\* user's, another role only that of the user with the session's username.
mayChange(sess, user) ==
  sess # NoSession /\ (sess.role = "admin" \/ user.username = sess.username)

\* C18: a password change alters only the password of a user the current
\* session may change, and a rejected change (new password shorter than 4
\* characters, or user not found) leaves every password as it is.
C18_PasswordChangeAllowed ==
  [][ /\ Len(state'.users) = Len(state.users)
      /\ \A i \in 1..Len(state.users) :
           state'.users[i].password # state.users[i].password =>
             /\ mayChange(session, state.users[i])
             /\ Len(state'.users[i].password) >= 4 ]_vars


\* An import the program refuses (no file, not JSON, or the guard of line 1025
\* fails), a delete whose confirm() is cancelled, a reset whose confirm() is
\* cancelled.
refusedImport ==
  \E file \in ImportFiles :
    /\ ~(file # NoText /\ importAccepts(file))
    /\ ~loginOpen
    /\ importData(file)
    /\ UNCHANGED <<download, nextId, pc, session>>

cancelledDelete ==
  \/ \E kind \in Kinds : \E id \in idsOf(partyList(state, kind)) : partyDelete(kind, id, FALSE)
  \/ \E mode \in Modes : \E id \in rowIds(state, mode) : txnDelete(mode, id, FALSE)

cancelledReset == btnReset(FALSE)

\* C19: after every operation the text stored under the storage key is the
\* serialisation of the in-memory state and reads back as that state; a
\* refused import, a cancelled delete and a cancelled reset change neither the
\* in-memory state nor the stored text.
C19_PersistedEqualsMemory ==
  [][ /\ storage' = JSONstringify(state')
      /\ loadState(storage') = state'
      /\ (refusedImport \/ cancelledDelete \/ cancelledReset)
           => (state' = state /\ storage' = storage) ]_vars

\* The demo seed followed by a password update and a company save, all stored.
C19_Witness ==
  /\ Len(state.ledger) = 5
  /\ state.users[1].password = "abcd"
  /\ state.company.name = <<"A">>
  /\ storage = JSONstringify(state)


\* The balance of every party on record in st.
partyBalances(st) ==
  [ kind \in Kinds |->
      [ i \in 1..Len(partyList(st, kind)) |-> calcPartyBalance(st, kind, partyList(st, kind)[i].id) ] ]

\* Every figure the reports show.
figures(st) ==
  [ totals |-> totals(st), balanceSheet |-> balanceSheet(st), cashFlow |-> cashFlow(st),
    balances |-> partyBalances(st) ]

addsEntry == download # NoText /\ Len(state'.ledger) = Len(state.ledger) + 1
deletesAdded == download # NoText /\ Len(state'.ledger) + 1 = Len(state.ledger)

\* C21: adding a new ledger entry and then deleting it leaves the ledger with
\* the content and order it had before the add, and with it every field of
\* totals, balanceSheet and cashFlow and every party balance; neither step
\* touches clients or vendors.
C21_AddThenDeleteRestores ==
  [][ /\ addsEntry =>
           /\ state'.clients = state.clients /\ state'.vendors = state.vendors
           /\ SubSeq(state'.ledger, 1, Len(state.ledger)) = state.ledger
      /\ deletesAdded =>
           /\ state'.ledger = Before.ledger
           /\ state'.clients = Before.clients /\ state'.vendors = Before.vendors
           /\ figures(state') = figures(Before) ]_vars

\* An entry was added to a ledger of at least one entry next to a party, and
\* deleted again: its id is gone and the ledger is the exported one.
C21_Witness ==
  /\ download # NoText
  /\ nextId = MaxIds + 1
  /\ MaxIds \notin idsOf(state.ledger)
  /\ Len(Before.ledger) >= 1
  /\ Len(Before.clients) + Len(Before.vendors) >= 1
  /\ state.ledger = Before.ledger


\* Whether username and password both match one entry of state.users.
credentialsMatch(username, password) ==
  \E i \in 1..Len(state.users) :
    state.users[i].username = username /\ state.users[i].password = password

\* C22: route() renders no view while there is no session.  The session
\* becomes non-null only by a login whose username and password both match one
\* entry of state.users, and it is then that user's; a login that matches no
\* entry leaves the session as it is; logout sets the session to null; and as
\* long as the session is null the document shows what it showed, or nothing
\* after a page load.
C22_NoViewWithoutSession ==
  [][ /\ (session = NoSession /\ session' # NoSession) =>
           \E username \in LoginNames : \E password \in LoginPasswords : \E path \in Paths :
             /\ credentialsMatch(username, password)
             /\ loginFormSubmit(username, password, path)
             /\ session'.username = username
      /\ \A username \in LoginNames : \A password \in LoginPasswords : \A path \in Paths :
           (~credentialsMatch(username, password) /\ loginFormSubmit(username, password, path))
             => (session' = session /\ view' = view)
      /\ btnLogout => session' = NoSession
      /\ session' = NoSession => view' \in {view, NothingRendered} ]_vars

\* After a login on the Settings page, a password update and a logout: the
\* session is null, the login dialog is open and the page stays as rendered.
C22_Witness ==
  /\ session = NoSession
  /\ loginOpen
  /\ view.page = "settings"
  /\ state.users[1].password = "abcd"

=============================================================================
